---- MODULE Spec2Model ----
(***************************************************************************)
(* Model of parquet_read: Connection (reader.py) drives one ParquetFromS3  *)
(* batch (lib/download.py): existence check, listing, a multiprocessing    *)
(* Queue, cpu_count() worker processes that drain it, the join, the        *)
(* completeness check and the hand-over to ReadParquet.                    *)
(*                                                                         *)
(* Names are sequences of characters and remote paths are sequences of     *)
(* names, so that os.path.basename, os.path.split and str.startswith are   *)
(* computed and not assumed.                                               *)
(***************************************************************************)
EXTENDS Integers, Sequences, FiniteSets, TLC

VARIABLES
    env,                \* os.environ: S3_BUCKET, S3_ACCESS, S3_SECRET, JAVA_HOME
    args,               \* arguments of Connection(...)
    conn,               \* Connection: _uri, _bucket, _destination_dir, _s3_connection, _full_download_path
    parentExists,       \* remote store: s3://bucket/<dirname of uri> exists
    prefixExists,       \* remote store: s3://bucket/uri exists
    remoteObjs,         \* remote store: base names of the objects directly under the prefix
    method,             \* entry point called: "json" or "data_frame"
    num_of_processes,   \* ParquetFromS3._num_of_processes = cpu_count()
    pc,                 \* position of the orchestrator (Connection)
    total_tries,        \* local of _create_download_obj_and_download_file
    error,              \* exception that left the entry point, or "none"
    download_process,   \* Connection._download_process is set (a ParquetFromS3 exists)
    files_to_download,  \* ParquetFromS3._files_to_download
    buffer,             \* Queue: items put, not yet written to the pipe by the feeder thread
    pipe,               \* Queue: items in the pipe, visible to empty() and get()
    dirExists,          \* local: destination_path exists
    local,              \* local: file name -> content, or NoFile
    started,            \* download_files_from_s3: number of processes started
    joined,             \* download_files_from_s3: number of processes joined
    wpc,                \* position of each worker process
    item,               \* path claimed by each worker, or NoPath
    delivered,          \* history: base name -> number of queue.get() that returned it
    transferred,        \* history: base name -> number of completed copies
    wrote,              \* history: base names opened for writing by a worker in this call
    listCount,          \* history: number of connection.ls calls
    poolRuns,           \* history: number of download_files_from_s3 calls
    validated,          \* history: "none", or what successfully_downloaded returned: "success", "failure"
    madeDir,            \* history: os.mkdir was called for destination_path
    failures,           \* history: <<worker, base name>> of every transfer that failed
    json_process        \* Connection._json_process: "none", "frame" or "json"

vars == <<env, args, conn, parentExists, prefixExists, remoteObjs, method, num_of_processes, pc,
          total_tries, error, download_process, files_to_download, buffer, pipe,
          dirExists, local, started, joined, wpc, item, delivered, transferred,
          wrote, listCount, poolRuns, validated, madeDir, failures, json_process>>

storeVars == <<env, args, conn, parentExists, prefixExists, remoteObjs, method, num_of_processes>>
histVars  == <<delivered, transferred, wrote, madeDir, failures>>

----------------------------------------------------------------------------
(* Bounds *)

MaxProcs == 3

(* Names *)

P1         == <<"p", "1">>
P2         == <<"p", "2">>
MarkerName == <<"_", "S">>
Old        == <<"o", "l", "d">>
Bucket     == <<"b">>
Agg        == <<"a", "g", "g">>
Data       == <<"d", "a", "t", "a">>
Tmp        == <<"t", "m", "p">>

RemoteNames == {P1, P2, MarkerName}
LocalNames  == {P1, P2, MarkerName, Old}
Workers     == 1..MaxProcs

NoFile == [tag |-> "nofile", size |-> 0]
NoPath == <<>>

(* What the object store holds under a name, and the two other things a    *)
(* local file can hold: what an earlier run left, and nothing.             *)
RemoteSize(n) == IF n = MarkerName THEN 0 ELSE 2
RemoteContent(n) == [tag |-> "remote", size |-> RemoteSize(n)]
StaleContent == [tag |-> "stale", size |-> 2]
StaleByte == [tag |-> "stale", size |-> 1]
EmptyContent == [tag |-> "empty", size |-> 0]

----------------------------------------------------------------------------
(* os.path and str helpers *)

Basename(path) == IF Len(path) = 0 THEN <<>> ELSE path[Len(path)]
Dirname(path) == IF Len(path) = 0 THEN <<>> ELSE SubSeq(path, 1, Len(path) - 1)
Join(a, b) == a \o b
StartsWith(name, c) == Len(name) > 0 /\ name[1] = c

(* Connection: the uri given by the caller and the paths derived from it *)
Uri == <<Agg, Data>>
ParentDestinationPath == <<Tmp>>
FullDownloadPath == Join(Bucket, Uri)
TestPath == Join(Bucket, Dirname(Uri))
DestinationPath == Join(ParentDestinationPath, <<Basename(Uri)>>)

(* The store: which paths exist, and what ls returns for the prefix (s3fs  *)
(* returns the names sorted; "_" sorts before the lower-case letters).      *)
NameOrder == <<MarkerName, P1, P2>>

InStore(n) == n \in remoteObjs

Exists(path) ==
    \/ path = TestPath /\ parentExists
    \/ path = FullDownloadPath /\ prefixExists

Ls(path) ==
    IF path = FullDownloadPath /\ prefixExists
    THEN LET names == SelectSeq(NameOrder, InStore)
         IN  [i \in 1..Len(names) |-> Join(path, <<names[i]>>)]
    ELSE <<>>

TotalTries == 3

NoError == [kind |-> "none", msg |-> "none"]
Raised(k, m) == [kind |-> k, msg |-> m]

Terminated == {"exited", "failed"}

(* Python values of the arguments and of the environment: None, a str (with *)
(* its content) and a value that is not a str                               *)
NoneV == [type |-> "NoneType", chars |-> <<>>]
IntV == [type |-> "int", chars |-> <<>>]
Str(cs) == [type |-> "str", chars |-> cs]
IsStr(v) == v.type = "str"
Truthy(v) == IF v.type = "str" THEN Len(v.chars) > 0 ELSE v.type # "NoneType"

Key  == <<"k">>
Sec  == <<"s">>
Java == <<"j">>

NoConn == [uri |-> NoneV, bucket |-> NoneV, destination_dir |-> NoneV,
           s3_connection |-> FALSE, full_download_path |-> NoPath]

----------------------------------------------------------------------------
(* ParquetFromS3 *)

NotMarker_KeepsAll(file_name) == Len(Basename(file_name)) > 0

NotMarker(file_name) == ~StartsWith(Basename(file_name), "_")

(* _create_list_of_files_to_download: what is put on the queue, and the    *)
(* names appended to _files_to_download                                    *)
QueuedFiles(listing) == SelectSeq(listing, NotMarker)
NameParts_FromListing(listing) == [i \in 1..Len(listing) |-> Basename(listing[i])]

NameParts(listing) ==
    LET q == QueuedFiles(listing) IN [i \in 1..Len(q) |-> Basename(q[i])]

(* successfully_downloaded: the loop over _files_to_download with its two  *)
(* breaks                                                                  *)
RECURSIVE FoundAllResults_NoSizeCheck(_, _, _)
FoundAllResults_NoSizeCheck(files, i, fs) ==
    IF i > Len(files) THEN TRUE
    ELSE IF fs[files[i]] = NoFile THEN FALSE
    ELSE FoundAllResults_NoSizeCheck(files, i + 1, fs)

RECURSIVE FoundAllResults_OneByteEnough(_, _, _)
FoundAllResults_OneByteEnough(files, i, fs) ==
    IF i > Len(files) THEN TRUE
    ELSE IF fs[files[i]] = NoFile THEN FALSE
    ELSE IF fs[files[i]].size < 1 THEN FALSE
    ELSE FoundAllResults_OneByteEnough(files, i + 1, fs)

RECURSIVE FoundAllResults(_, _, _)
FoundAllResults(files, i, fs) ==
    IF i > Len(files) THEN TRUE
    ELSE IF fs[files[i]] = NoFile THEN FALSE
    ELSE IF fs[files[i]].size <= 1 THEN FALSE
    ELSE FoundAllResults(files, i + 1, fs)

successfully_downloaded == FoundAllResults(files_to_download, 1, local)

----------------------------------------------------------------------------
(* A Connection whose construction has succeeded *)
Constructed ==
    [uri |-> Str(Uri), bucket |-> Str(Bucket), destination_dir |-> Str(ParentDestinationPath),
     s3_connection |-> TRUE, full_download_path |-> FullDownloadPath]

Init ==
    /\ env = [S3_BUCKET |-> Str(Bucket), S3_ACCESS |-> Str(Key), S3_SECRET |-> Str(Sec),
              JAVA_HOME |-> Str(Java)]
    /\ args = [uri |-> Str(Uri), bucket |-> NoneV, access_key |-> NoneV, secret_key |-> NoneV,
               destination_dir |-> Str(ParentDestinationPath)]
    /\ conn = Constructed
    /\ parentExists \in BOOLEAN
    /\ prefixExists \in BOOLEAN
    /\ prefixExists => parentExists
    /\ remoteObjs \in SUBSET RemoteNames
    /\ ~prefixExists => remoteObjs = {}
    /\ method \in {"json", "data_frame"}
    /\ num_of_processes \in 1..MaxProcs
    /\ pc = "start"
    /\ total_tries = TotalTries
    /\ error = NoError
    /\ download_process = FALSE
    /\ files_to_download = <<>>
    /\ buffer = <<>>
    /\ pipe = <<>>
    /\ dirExists \in BOOLEAN
    /\ \E stale \in SUBSET {P1, Old} :
          /\ ~dirExists => stale = {}
          /\ \E left \in {StaleContent, StaleByte} :
                local = [n \in LocalNames |-> IF n \in stale THEN left ELSE NoFile]
    /\ started = 0
    /\ joined = 0
    /\ wpc = [w \in Workers |-> "idle"]
    /\ item = [w \in Workers |-> NoPath]
    /\ delivered = [n \in LocalNames |-> 0]
    /\ transferred = [n \in LocalNames |-> 0]
    /\ wrote = {}
    /\ listCount = 0
    /\ poolRuns = 0
    /\ validated = "none"
    /\ madeDir = FALSE
    /\ failures = {}
    /\ json_process = "none"

----------------------------------------------------------------------------
(* Connection._create_download_obj_and_download_file *)

(* line 210: the existence check; lines 223-225 when it fails *)
TestConnection ==
    /\ pc = "start"
    /\ IF Exists(TestPath)
       THEN /\ pc' = "construct"
            /\ error' = error
       ELSE /\ pc' = "raised"
            /\ error' = Raised("S3ConnectionError", "connection_not_valid")
    /\ UNCHANGED <<storeVars, histVars, total_tries, download_process, files_to_download,
                   buffer, pipe, dirExists, local, started, joined, wpc, item,
                   listCount, poolRuns, validated, json_process>>

(* lines 211-215: ParquetFromS3(...) is constructed: the destination        *)
(* directory is made when absent, the prefix is listed, the non-marker      *)
(* objects are put on a new Queue; download_files_from_s3 is entered.       *)
(* The listing can raise (the store is unreachable, or, with an s3fs that   *)
(* raises for a missing path, the prefix does not exist); that exception is *)
(* not a DownloadError and leaves the entry point.                          *)
Construct ==
    /\ pc = "construct"
    /\ total_tries # 0
    /\ dirExists' = TRUE
    /\ madeDir' = (madeDir \/ ~dirExists)
    /\ listCount' = listCount + 1
    /\ \E raises \in BOOLEAN :
          IF raises
          THEN /\ pc' = "raised"
               /\ error' = Raised(IF prefixExists THEN "ConnectionError" ELSE "FileNotFoundError",
                                  "ls")
               /\ UNCHANGED <<download_process, files_to_download, buffer, pipe, poolRuns>>
          ELSE /\ pc' = "pool"
               /\ error' = error
               /\ download_process' = TRUE
               /\ files_to_download' = NameParts(Ls(FullDownloadPath))
               /\ buffer' = QueuedFiles(Ls(FullDownloadPath))
               /\ pipe' = <<>>
               /\ poolRuns' = poolRuns + 1
    /\ UNCHANGED <<storeVars, delivered, transferred, wrote, failures, total_tries, local, started,
                   joined, wpc, item, validated, json_process>>

(* multiprocessing.Queue: put (download.py:112) appends to a buffer; the    *)
(* Queue's feeder thread later writes the item to the pipe, and only then   *)
(* do empty() and get() in the worker processes see it                      *)
Feeder ==
    /\ buffer # <<>>
    /\ pipe' = Append(pipe, Head(buffer))
    /\ buffer' = Tail(buffer)
    /\ UNCHANGED <<storeVars, histVars, pc, total_tries, error, download_process,
                   files_to_download, dirExists, local, started, joined, wpc, item,
                   listCount, poolRuns, validated, json_process>>

(* download_files_from_s3, lines 97-100: one Process is created and started *)
StartProcess ==
    /\ pc = "pool"
    /\ started < num_of_processes
    /\ started' = started + 1
    /\ wpc' = [wpc EXCEPT ![started + 1] = "check"]
    /\ UNCHANGED <<storeVars, histVars, pc, total_tries, error, download_process,
                   files_to_download, buffer, pipe, dirExists, local, joined, item,
                   listCount, poolRuns, validated, json_process>>

(* download_files_from_s3, lines 102-103: join returns for a process that   *)
(* has ended, whatever its exit code                                        *)
JoinReturns_NoWait(w) == wpc[w] # "idle"

JoinReturns(w) == wpc[w] \in Terminated

JoinProcess ==
    /\ pc = "pool"
    /\ started = num_of_processes
    /\ joined < num_of_processes
    /\ JoinReturns(joined + 1)
    /\ joined' = joined + 1
    /\ UNCHANGED <<storeVars, histVars, pc, total_tries, error, download_process,
                   files_to_download, buffer, pipe, dirExists, local, started, wpc, item,
                   listCount, poolRuns, validated, json_process>>

PoolReturns_RetriesWithoutCounting ==
    /\ pc = "pool"
    /\ started = num_of_processes
    /\ joined = num_of_processes
    /\ IF \E w \in Workers : wpc[w] = "failed"
       THEN /\ pc' = "construct"
            /\ started' = 0
            /\ joined' = 0
            /\ wpc' = [w \in Workers |-> "idle"]
       ELSE /\ pc' = "validate"
            /\ UNCHANGED <<started, joined, wpc>>
    /\ UNCHANGED <<storeVars, histVars, total_tries, error, download_process,
                   files_to_download, buffer, pipe, dirExists, local, item,
                   listCount, poolRuns, validated, json_process>>

(* download_files_from_s3 returns; line 216 break; lines 221-222.           *)
(* The workers are multiprocessing.Process children: a DownloadError raised *)
(* at download.py:159 ends the child and is not raised again by join, so    *)
(* download_files_from_s3 always returns normally.  The constructor raises  *)
(* DownloadError only for a missing connection or parent directory          *)
(* (download.py:131, 141), which Connection.__init__ has already excluded.  *)
(* The except clause of lines 217-219 is therefore never entered and        *)
(* total_tries keeps its initial value.                                     *)
PoolReturns ==
    /\ pc = "pool"
    /\ started = num_of_processes
    /\ joined = num_of_processes
    /\ IF total_tries = 0
       THEN /\ pc' = "raised"
            /\ error' = Raised("S3ConnectionError", "after_attempting_3_times")
       ELSE /\ pc' = "validate"
            /\ error' = error
    /\ UNCHANGED <<storeVars, histVars, total_tries, download_process, files_to_download,
                   buffer, pipe, dirExists, local, started, joined, wpc, item,
                   listCount, poolRuns, validated, json_process>>

----------------------------------------------------------------------------
(* ParquetFromS3._download_single_file, run in each worker process *)

(* line 151: while not queue.empty() *)
CheckEmpty(w) ==
    /\ wpc[w] = "check"
    /\ wpc' = [wpc EXCEPT ![w] = IF pipe = <<>> THEN "exited" ELSE "get"]
    /\ UNCHANGED <<storeVars, histVars, pc, total_tries, error, download_process,
                   files_to_download, buffer, pipe, dirExists, local, started, joined, item,
                   listCount, poolRuns, validated, json_process>>

(* line 152: queue.get() blocks until an item is in the pipe *)
Get(w) ==
    /\ wpc[w] = "get"
    /\ pipe # <<>>
    /\ item' = [item EXCEPT ![w] = Head(pipe)]
    /\ pipe' = Tail(pipe)
    /\ delivered' = [delivered EXCEPT ![Basename(Head(pipe))] = @ + 1]
    /\ wpc' = [wpc EXCEPT ![w] = "open"]
    /\ UNCHANGED <<storeVars, transferred, wrote, madeDir, failures, pc, total_tries, error, download_process,
                   files_to_download, buffer, dirExists, local, started, joined,
                   listCount, poolRuns, validated, json_process>>

(* line 156: the remote object is opened, then the local file is opened     *)
(* 'wb' (created or truncated)                                              *)
Open(w) ==
    /\ wpc[w] = "open"
    /\ local' = [local EXCEPT ![Basename(item[w])] = EmptyContent]
    /\ wrote' = wrote \cup {Basename(item[w])}
    /\ wpc' = [wpc EXCEPT ![w] = "copy"]
    /\ UNCHANGED <<storeVars, delivered, transferred, madeDir, failures, pc, total_tries, error,
                   download_process, files_to_download, buffer, pipe, dirExists, started,
                   joined, item, listCount, poolRuns, validated, json_process>>

(* line 156 fails on the remote open: NewConnectionError, lines 158-159     *)
(* raise DownloadError inside the worker process, which ends                *)
OpenFails(w) ==
    /\ wpc[w] = "open"
    /\ wpc' = [wpc EXCEPT ![w] = "failed"]
    /\ failures' = failures \cup {<<w, Basename(item[w])>>}
    /\ item' = [item EXCEPT ![w] = NoPath]
    /\ UNCHANGED <<storeVars, delivered, transferred, wrote, madeDir, pc, total_tries, error, download_process,
                   files_to_download, buffer, pipe, dirExists, local, started, joined,
                   listCount, poolRuns, validated, json_process>>

(* line 157: the whole object is read and written; the files are closed *)
Copy(w) ==
    /\ wpc[w] = "copy"
    /\ local' = [local EXCEPT ![Basename(item[w])] = RemoteContent(Basename(item[w]))]
    /\ transferred' = [transferred EXCEPT ![Basename(item[w])] = @ + 1]
    /\ item' = [item EXCEPT ![w] = NoPath]
    /\ wpc' = [wpc EXCEPT ![w] = "check"]
    /\ UNCHANGED <<storeVars, delivered, wrote, madeDir, failures, pc, total_tries, error, download_process,
                   files_to_download, buffer, pipe, dirExists, started, joined,
                   listCount, poolRuns, validated, json_process>>

CopyFails_KeepsDraining(w) ==
    /\ wpc[w] = "copy"
    /\ wpc' = [wpc EXCEPT ![w] = "check"]
    /\ failures' = failures \cup {<<w, Basename(item[w])>>}
    /\ item' = [item EXCEPT ![w] = NoPath]
    /\ UNCHANGED <<storeVars, delivered, transferred, wrote, madeDir, pc, total_tries, error,
                   download_process, files_to_download, buffer, pipe, dirExists, local,
                   started, joined, listCount, poolRuns, validated, json_process>>

(* line 157 fails on the read: the local file is closed empty, DownloadError *)
(* is raised inside the worker process, which ends                          *)
CopyFails(w) ==
    /\ wpc[w] = "copy"
    /\ wpc' = [wpc EXCEPT ![w] = "failed"]
    /\ failures' = failures \cup {<<w, Basename(item[w])>>}
    /\ item' = [item EXCEPT ![w] = NoPath]
    /\ UNCHANGED <<storeVars, delivered, transferred, wrote, madeDir, pc, total_tries, error, download_process,
                   files_to_download, buffer, pipe, dirExists, local, started, joined,
                   listCount, poolRuns, validated, json_process>>

----------------------------------------------------------------------------
(* Connection.download_and_convert_to_json, download_and_get_data_frame *)

(* lines 114, 118-120 and 129, 133-135 *)
Validate ==
    /\ pc = "validate"
    /\ validated' = IF successfully_downloaded THEN "success" ELSE "failure"
    /\ IF successfully_downloaded
       THEN /\ pc' = "convert"
            /\ error' = error
       ELSE /\ pc' = "raised"
            /\ error' = Raised("S3ConnectionError", "did_not_successfully_download")
    /\ UNCHANGED <<storeVars, histVars, total_tries, download_process, files_to_download,
                   buffer, pipe, dirExists, local, started, joined, wpc, item,
                   listCount, poolRuns, json_process>>

(* lines 115-117 and 130-131 *)
Convert ==
    /\ pc = "convert"
    /\ json_process' = IF method = "json" THEN "json" ELSE "frame"
    /\ pc' = "returned"
    /\ UNCHANGED <<storeVars, histVars, total_tries, error, download_process,
                   files_to_download, buffer, pipe, dirExists, local, started, joined,
                   wpc, item, listCount, poolRuns, validated>>

----------------------------------------------------------------------------
Next ==
    \/ TestConnection
    \/ Construct
    \/ Feeder
    \/ StartProcess
    \/ JoinProcess
    \/ PoolReturns
    \/ \E w \in Workers : CheckEmpty(w)
    \/ \E w \in Workers : Get(w)
    \/ \E w \in Workers : Open(w)
    \/ \E w \in Workers : OpenFails(w)
    \/ \E w \in Workers : Copy(w)
    \/ \E w \in Workers : CopyFails(w)
    \/ Validate
    \/ Convert

Spec == Init /\ [][Next]_vars

----------------------------------------------------------------------------
(* Connection.__init__, reader.py lines 71-77, one action per call *)

fetchVars == <<parentExists, prefixExists, remoteObjs, method, num_of_processes, total_tries,
               download_process, files_to_download, buffer, pipe, dirExists, local, started,
               joined, wpc, item, delivered, transferred, wrote, listCount, poolRuns,
               validated, madeDir, failures, json_process>>

InitRaises(k, m) ==
    /\ pc' = "init_raised"
    /\ error' = Raised(k, m)

(* _set_uri_path *)
SetUriPath ==
    /\ pc = "set_uri"
    /\ IF IsStr(args.uri)
       THEN IF args.uri # Str(<<>>) \/ args.uri # NoneV
            THEN /\ conn' = [conn EXCEPT !.uri = args.uri]
                 /\ pc' = "set_bucket"
                 /\ error' = error
            ELSE /\ InitRaises("ValueError", "uri")
                 /\ conn' = conn
       ELSE /\ InitRaises("ValueError", "uri")
            /\ conn' = conn
    /\ UNCHANGED <<env, args, fetchVars>>

(* _set_bucket: the environment variable first, then the argument *)
SetBucket ==
    /\ pc = "set_bucket"
    /\ IF ~Truthy(env.S3_BUCKET)
       THEN IF IsStr(args.bucket)
            THEN IF args.bucket # Str(<<>>) \/ args.bucket # NoneV
                 THEN /\ conn' = [conn EXCEPT !.bucket = args.bucket]
                      /\ pc' = "set_access"
                      /\ error' = error
                 ELSE /\ InitRaises("ValueError", "bucket")
                      /\ conn' = conn
            ELSE /\ InitRaises("ValueError", "bucket")
                 /\ conn' = conn
       ELSE /\ conn' = [conn EXCEPT !.bucket = env.S3_BUCKET]
            /\ pc' = "set_access"
            /\ error' = error
    /\ UNCHANGED <<env, args, fetchVars>>

(* _set_s3_access_key: the environment variable first, then the argument *)
SetS3AccessKey ==
    /\ pc = "set_access"
    /\ IF ~Truthy(env.S3_ACCESS)
       THEN IF IsStr(args.access_key)
            THEN IF args.access_key # Str(<<>>) \/ args.access_key # NoneV
                 THEN /\ env' = [env EXCEPT !.S3_ACCESS = args.access_key]
                      /\ pc' = "set_secret"
                      /\ error' = error
                 ELSE /\ InitRaises("ValueError", "access_key")
                      /\ env' = env
            ELSE /\ InitRaises("ValueError", "access_key")
                 /\ env' = env
       ELSE /\ env' = env
            /\ pc' = "set_secret"
            /\ error' = error
    /\ UNCHANGED <<args, conn, fetchVars>>

(* _set_s3_secret_key: line 257 tests 'not isinstance(secret_key, str)';    *)
(* os.environ refuses a value that is not a str with TypeError              *)
SetS3SecretKey ==
    /\ pc = "set_secret"
    /\ IF ~Truthy(env.S3_SECRET)
       THEN IF ~IsStr(args.secret_key)
            THEN IF args.secret_key # Str(<<>>) \/ args.secret_key # NoneV
                 THEN IF IsStr(args.secret_key)
                      THEN /\ env' = [env EXCEPT !.S3_SECRET = args.secret_key]
                           /\ pc' = "set_dest"
                           /\ error' = error
                      ELSE /\ InitRaises("TypeError", "secret_key")
                           /\ env' = env
                 ELSE /\ InitRaises("ValueError", "secret_key")
                      /\ env' = env
            ELSE /\ InitRaises("ValueError", "secret_key")
                 /\ env' = env
       ELSE /\ env' = env
            /\ pc' = "set_dest"
            /\ error' = error
    /\ UNCHANGED <<args, conn, fetchVars>>

(* _set_json_destination_directory: a new temporary directory, or the      *)
(* directory of the caller, made when absent                                *)
SetJsonDestinationDirectory ==
    /\ pc = "set_dest"
    /\ conn' = [conn EXCEPT !.destination_dir =
                    IF ~Truthy(args.destination_dir) THEN Str(ParentDestinationPath)
                    ELSE args.destination_dir]
    /\ pc' = "create_connection"
    /\ UNCHANGED <<env, args, error, fetchVars>>

CreateConnection_NoCredentialCheck ==
    /\ pc = "create_connection"
    /\ IF ~Truthy(env.JAVA_HOME)
       THEN /\ InitRaises("S3ConnectionError", "java_home")
            /\ conn' = conn
       ELSE /\ conn' = [conn EXCEPT !.s3_connection = TRUE,
                                    !.full_download_path = Join(conn.bucket.chars, conn.uri.chars)]
            /\ pc' = "start"
            /\ error' = error
    /\ UNCHANGED <<env, args, fetchVars>>

(* _create_connection, then line 77 *)
CreateConnection ==
    /\ pc = "create_connection"
    /\ IF ~Truthy(env.JAVA_HOME)
       THEN /\ InitRaises("S3ConnectionError", "java_home")
            /\ conn' = conn
       ELSE IF Truthy(env.S3_ACCESS) /\ Truthy(env.S3_SECRET)
            THEN /\ conn' = [conn EXCEPT !.s3_connection = TRUE,
                                         !.full_download_path = Join(conn.bucket.chars, conn.uri.chars)]
                 /\ pc' = "start"
                 /\ error' = error
            ELSE /\ InitRaises("S3ConnectionError", "env_not_set")
                 /\ conn' = conn
    /\ UNCHANGED <<env, args, fetchVars>>

(* Construction from any environment and arguments, followed by a call of  *)
(* an entry point against one store                                        *)
ConnInit ==
    /\ env \in [S3_BUCKET : {NoneV, Str(Bucket)}, S3_ACCESS : {NoneV, Str(Key)},
                S3_SECRET : {NoneV, Str(Sec)}, JAVA_HOME : {NoneV, Str(Java)}]
    /\ args \in [uri : {Str(Uri), IntV},
                 bucket : {NoneV, Str(Bucket), IntV},
                 access_key : {NoneV, Str(<<>>), Str(Key), IntV},
                 secret_key : {NoneV, Str(<<>>), Str(Sec), IntV},
                 destination_dir : {NoneV, Str(ParentDestinationPath)}]
    /\ conn = NoConn
    /\ parentExists = TRUE
    /\ prefixExists = TRUE
    /\ remoteObjs = {P1, MarkerName}
    /\ method = "json"
    /\ num_of_processes = 2
    /\ pc = "set_uri"
    /\ total_tries = TotalTries
    /\ error = NoError
    /\ download_process = FALSE
    /\ files_to_download = <<>>
    /\ buffer = <<>>
    /\ pipe = <<>>
    /\ dirExists = FALSE
    /\ local = [n \in LocalNames |-> NoFile]
    /\ started = 0
    /\ joined = 0
    /\ wpc = [w \in Workers |-> "idle"]
    /\ item = [w \in Workers |-> NoPath]
    /\ delivered = [n \in LocalNames |-> 0]
    /\ transferred = [n \in LocalNames |-> 0]
    /\ wrote = {}
    /\ listCount = 0
    /\ poolRuns = 0
    /\ validated = "none"
    /\ madeDir = FALSE
    /\ failures = {}
    /\ json_process = "none"

ConnNext ==
    \/ SetUriPath
    \/ SetBucket
    \/ SetS3AccessKey
    \/ SetS3SecretKey
    \/ SetJsonDestinationDirectory
    \/ CreateConnection
    \/ Next

ConnSpec == ConnInit /\ [][ConnNext]_vars

----------------------------------------------------------------------------
(* Claims *)

Procs == 1..num_of_processes
PoolStarted == download_process /\ started = num_of_processes
AfterPool == pc \in {"validate", "convert", "returned", "raised"} /\ download_process
NoTransferFailure == \A w \in Procs : wpc[w] # "failed"
AllExited == PoolStarted /\ \A w \in Procs : wpc[w] = "exited"
Expected == {files_to_download[i] : i \in 1..Len(files_to_download)}

(* C1: with no transfer failure, no item is delivered to two workers, and  *)
(* once every worker has exited each queued item has been claimed and      *)
(* transferred exactly once.                                               *)
C1_EachItemExactlyOnce ==
    /\ \A n \in LocalNames : delivered[n] <= 1
    /\ (AllExited /\ NoTransferFailure) =>
           \A n \in Expected : delivered[n] = 1 /\ transferred[n] = 1

(* C2: no interleaving leaves a worker blocked for ever in queue.get(): a  *)
(* worker never waits in get() on a queue that holds nothing and to which  *)
(* nothing is left to be written.                                          *)
C2_NoWorkerBlockedForever ==
    \A w \in Procs : ~(wpc[w] = "get" /\ pipe = <<>> /\ buffer = <<>>)

(* C3: when the validator reports failure and fewer than 3 attempts have   *)
(* been consumed, the orchestrator runs another attempt instead of         *)
(* failing the call.                                                       *)
C3_ValidationFailureIsRetried ==
    ~(pc = "raised" /\ validated = "failure" /\ poolRuns < TotalTries)

(* C4: when every attempt fails, the call ends only after exactly 3        *)
(* attempts, and with the terminal error that names the prefix and the     *)
(* attempt count.                                                          *)
C4_ThreeAttemptsThenTerminalError ==
    (pc = "raised" /\ AfterPool) =>
        /\ poolRuns = TotalTries
        /\ listCount = TotalTries
        /\ error = Raised("S3ConnectionError", "after_attempting_3_times")

(* C5: a worker's failed copy reaches the orchestrator: once the pool has  *)
(* been joined, the attempt counts as failed and has consumed one unit of  *)
(* the retry budget.                                                       *)
C5_WorkerFailureConsumesOneTry ==
    (AfterPool /\ \E w \in Procs : wpc[w] = "failed") =>
        /\ total_tries = TotalTries - 1
        /\ pc \notin {"convert", "returned"}

(* C6: a failed attempt with budget left is followed by a full fresh       *)
(* attempt: the prefix is listed again and a new queue is filled before    *)
(* the pool runs again, so the call does not end on the failure with a     *)
(* single listing.                                                         *)
C6_RetryIsFreshAttempt ==
    (pc = "raised" /\ validated = "failure" /\ total_tries > 0) =>
        (listCount >= 2 /\ listCount = poolRuns)

(* C7: conversion is invoked only after the validator has reported         *)
(* success; every other outcome raises without conversion, and a normal    *)
(* return never leaves an expected file missing or of size <= 1.           *)
C7_ConvertOnlyAfterSuccess ==
    /\ (pc = "convert" \/ json_process # "none") => validated = "success"
    /\ pc = "raised" => (json_process = "none" /\ error # NoError)
    /\ pc = "returned" =>
          /\ json_process = (IF method = "json" THEN "json" ELSE "frame")
          /\ \A n \in Expected : local[n] # NoFile /\ local[n].size > 1

C7_Witness ==
    /\ pc = "returned"
    /\ json_process = "json"
    /\ Cardinality(Expected) = 2
    /\ \A n \in Expected : transferred[n] = 1

(* C8: when the remote prefix does not exist the call fails at once with   *)
(* the connection error of the existence check: nothing is listed, no      *)
(* queue is built, no worker is started and no directory is written.       *)
C8_MissingPrefixFailsImmediately ==
    ~prefixExists =>
        /\ listCount = 0
        /\ ~download_process
        /\ started = 0
        /\ ~madeDir
        /\ pc \in {"start", "raised"}
        /\ pc = "raised" => error = Raised("S3ConnectionError", "connection_not_valid")

(* C9: the validator is evaluated only when every worker of the attempt    *)
(* has ended: while it runs, and after it has run, no worker holds a       *)
(* claimed item or an open local file.                                     *)
C9_ValidateAfterAllWorkersEnded ==
    (pc = "validate" \/ validated # "none") =>
        /\ \A w \in Procs : wpc[w] \in Terminated
        /\ \A w \in Workers : item[w] = NoPath /\ wpc[w] \notin {"get", "open", "copy"}

C9_Witness ==
    /\ pc = "validate"
    /\ num_of_processes >= 2
    /\ \E w \in Procs : wpc[w] = "failed"
    /\ \E n \in Expected : transferred[n] = 1

(* C10: when an attempt is declared successful the destination directory   *)
(* holds exactly one file per non-marker remote object, each identical to  *)
(* its remote source and written in this attempt, and no other file.       *)
C10_ExactlyTheRemoteFiles ==
    validated = "success" =>
        \A n \in LocalNames :
            IF n \in remoteObjs /\ ~StartsWith(n, "_")
            THEN local[n] = RemoteContent(n) /\ transferred[n] >= 1
            ELSE local[n] = NoFile

(* C11: successfully_downloaded is true exactly when every expected file   *)
(* exists with a size above 1 byte; making any single expected file        *)
(* missing, empty or one byte long makes it false.                         *)
C11_ValidatorIffAllPresentAndSized ==
    /\ successfully_downloaded <=>
           \A i \in 1..Len(files_to_download) :
               local[files_to_download[i]] # NoFile /\ local[files_to_download[i]].size > 1
    /\ \A n \in Expected : \A c \in {NoFile, EmptyContent, StaleByte} :
           ~FoundAllResults(files_to_download, 1, [local EXCEPT ![n] = c])

C11_Witness ==
    /\ pc = "raised"
    /\ validated = "failure"
    /\ Cardinality(Expected) = 2
    /\ local[P1] = StaleByte
    /\ local[P2] = RemoteContent(P2)

QueueItems == {buffer[i] : i \in 1..Len(buffer)} \cup {pipe[i] : i \in 1..Len(pipe)}

(* C12: an object whose base name starts with "_" is never put on the      *)
(* queue, never claimed or written by a worker and never expected by the   *)
(* validator; the workers write only non-marker objects of the listing.    *)
C12_MarkerNeverFetchedOrChecked ==
    /\ \A path \in QueueItems : Basename(path)[1] # "_"
    /\ \A w \in Workers : item[w] # NoPath => Basename(item[w])[1] # "_"
    /\ \A n \in Expected : n[1] # "_"
    /\ \A n \in LocalNames : n[1] = "_" =>
           delivered[n] = 0 /\ transferred[n] = 0 /\ n \notin wrote /\ local[n] = NoFile
    /\ wrote \subseteq {n \in remoteObjs : n[1] # "_"}

C12_Witness ==
    /\ remoteObjs = {P1, P2, MarkerName}
    /\ pc = "returned"
    /\ wrote = {P1, P2}
    /\ local[P1] = RemoteContent(P1)
    /\ local[P2] = RemoteContent(P2)

(* C13: when the workers of an attempt begin writing, the destination      *)
(* directory exists and holds no stale state: every file in it was written *)
(* by a worker of this attempt.                                            *)
C13_NoStaleStateWhenWritingBegins ==
    started > 0 =>
        /\ dirExists
        /\ \A n \in LocalNames : local[n] # NoFile => n \in wrote

(* C14: a worker whose transfer failed stops: it stays ended and holds no  *)
(* item, and the failed item, delivered once, is not on the queue again,   *)
(* not held by any worker and not transferred in this attempt.             *)
C14_FailedWorkerStops ==
    \A f \in failures :
        /\ wpc[f[1]] = "failed"
        /\ item[f[1]] = NoPath
        /\ delivered[f[2]] = 1
        /\ transferred[f[2]] = 0
        /\ \A path \in QueueItems : Basename(path) # f[2]
        /\ \A w \in Workers : item[w] # NoPath => Basename(item[w]) # f[2]

C14_Witness ==
    /\ AfterPool
    /\ Cardinality(Expected) = 2
    /\ \E f \in failures : \E w \in Procs :
           w # f[1] /\ wpc[w] = "exited" /\ \E n \in Expected : n # f[2] /\ transferred[n] = 1

InitPcs == {"set_uri", "set_bucket", "set_access", "set_secret", "set_dest", "create_connection"}
FetchPcs == {"start", "construct", "pool", "validate", "convert", "returned", "raised"}

(* C15: with S3_SECRET unset and a string secret_key argument, the secret  *)
(* is taken from the argument: once _set_s3_secret_key has run,            *)
(* construction has not failed on the secret key and the environment       *)
(* holds the argument.                                                     *)
C15_SecretTakenFromArgument ==
    (IsStr(args.secret_key) /\ Truthy(args.secret_key) /\ env.S3_SECRET # args.secret_key) =>
        \/ pc \in {"set_uri", "set_bucket", "set_access", "set_secret"}
        \/ pc = "init_raised" /\ error.msg \in {"uri", "bucket", "access_key"}

(* C16: when the access credential pair is absent, construction itself     *)
(* fails: a fetch only ever starts on a Connection that holds an S3        *)
(* connection made from both credentials, and a call never fails on a      *)
(* missing credential.                                                     *)
C16_MissingCredentialsFailConstruction ==
    /\ pc \in FetchPcs =>
          /\ conn.s3_connection
          /\ Truthy(env.S3_ACCESS)
          /\ Truthy(env.S3_SECRET)
    /\ (~Truthy(env.S3_ACCESS) \/ ~Truthy(env.S3_SECRET)) =>
          /\ pc \in InitPcs \cup {"init_raised"}
          /\ ~conn.s3_connection
    /\ pc = "raised" => error.msg \notin {"env_not_set", "access_key", "secret_key"}

C16_Witness ==
    /\ pc = "init_raised"
    /\ error = Raised("S3ConnectionError", "env_not_set")
    /\ env.S3_ACCESS = Str(<<>>)
    /\ Truthy(env.S3_SECRET)

(* C17: whatever fails, the worker pool is run at most 3 times in a call   *)
(* and the attempt counter stays within 1..3.                              *)
C17_AtMostThreePoolRuns ==
    /\ poolRuns <= 3
    /\ listCount <= 3
    /\ total_tries \in 1..3

C17_Witness ==
    /\ pc = "raised"
    /\ validated = "failure"
    /\ failures # {}
    /\ poolRuns = 1

Queue == pipe \o buffer
ListedPayload == {n \in remoteObjs : n[1] # "_"}
TargetPath(path) == Join(DestinationPath, <<path[Len(path)]>>)
FinalPath(file_name) == Join(DestinationPath, <<file_name>>)

(* C18: after ParquetFromS3 construction the queue holds each listed       *)
(* non-marker object exactly once, and _files_to_download is the list of   *)
(* the base names of the queued items, each naming the local path the      *)
(* worker writes for that item.                                            *)
C18_QueueAndExpectedListAgree ==
    (pc = "pool" /\ started = 0) =>
        /\ Len(Queue) = Cardinality(ListedPayload)
        /\ \A n \in ListedPayload :
               Cardinality({i \in 1..Len(Queue) : Queue[i] = FullDownloadPath \o <<n>>}) = 1
        /\ Len(files_to_download) = Len(Queue)
        /\ \A i \in 1..Len(Queue) :
               /\ files_to_download[i] = Queue[i][Len(Queue[i])]
               /\ FinalPath(files_to_download[i]) = TargetPath(Queue[i])

C18_Witness ==
    /\ pc = "pool"
    /\ started = 0
    /\ remoteObjs = {P1, P2, MarkerName}
    /\ Len(pipe) = 1
    /\ Len(buffer) = 1

(* C19: when the prefix lists no non-marker object, every worker exits     *)
(* without claiming or writing, the validator reports success, and the     *)
(* call succeeds after one attempt, handing an empty destination directory *)
(* to conversion.                                                          *)
C19_EmptyListingSucceedsWithEmptyDirectory ==
    (download_process /\ Len(files_to_download) = 0) =>
        /\ \A n \in LocalNames : delivered[n] = 0 /\ transferred[n] = 0
        /\ wrote = {}
        /\ \A w \in Workers : wpc[w] \in {"idle", "check", "exited"}
        /\ AfterPool => (pc # "raised" /\ error = NoError /\ poolRuns = 1)
        /\ pc \in {"convert", "returned"} =>
               (validated = "success" /\ \A n \in LocalNames : local[n] = NoFile)

====
